---- MODULE Spec2Model ----
(***************************************************************************)
(* bigmess build_pkg_condor: run() of cmd_build_pkg_condor.py.             *)
(*                                                                         *)
(* A string is a sequence of segments, so that equality and startswith()   *)
(* are decided on the text: "--condor-logdir" is <<"-","-","condor-",      *)
(* "logdir">>.  A path is a string whose directories are separated by the  *)
(* segment "/".  ' '.join(...) and ','.join(...) are kept as the sequence  *)
(* of the joined strings.  The three log file lines of a job stanza and    *)
(* the creation of the log directory are not part of the model.            *)
(***************************************************************************)
EXTENDS Integers, Sequences, FiniteSets, TLC

VARIABLES sys_argv, args, cfg, pc, i, argv, dsc_fname, submit,
          source_include, env_idx, dist_dsc_fname, transfer_files,
          archs, arch_idx, first_arch, stdin, calls, returncode, error

vars == <<sys_argv, args, cfg, pc, i, argv, dsc_fname, submit,
          source_include, env_idx, dist_dsc_fname, transfer_files,
          archs, arch_idx, first_arch, stdin, calls, returncode, error>>

\* number of options given on the command line, at most
MaxOpts == 2

-----------------------------------------------------------------------------
\* strings and paths

startswith(s, p) == Len(s) >= Len(p) /\ SubSeq(s, 1, Len(p)) = p

\* s.split(sep): the maximal runs of s between the separators; runs that are
\* empty are dropped (split() on whitespace; the names split on '-' have none)
RECURSIVE split(_, _)
split(s, sep) ==
    IF s = <<>> THEN <<>>
    ELSE IF Head(s) = sep THEN split(Tail(s), sep)
    ELSE LET rest == split(Tail(s), sep)
         IN IF Len(s) > 1 /\ s[2] # sep
            THEN <<(<<Head(s)>> \o Head(rest))>> \o Tail(rest)
            ELSE <<(<<Head(s)>>)>> \o rest

dirname(p) == IF Len(p) >= 3 THEN SubSeq(p, 1, Len(p) - 2) ELSE <<>>
basename(p) == <<p[Len(p)]>>
opj(d, f) == IF d = <<>> THEN f ELSE d \o <<"/">> \o f

\* None and a value: None is <<>>, the value v is <<v>>
None == <<>>
Some(v) == <<v>>
truthy(o) == o # None /\ o[1]

-----------------------------------------------------------------------------
\* the tokens of the command line

T_prog     == <<"bigmess">>
T_cmd      == <<"build_pkg_condor">>
T_slave    == <<"build_pkg">>
T_env      == <<"-", "-", "env">>
T_arch     == <<"-", "-", "arch">>
T_dd       == <<"-", "-">>
T_backport == <<"-", "-", "backport">>
T_srcincl  == <<"-", "-", "source-include">>
T_basedir  == <<"-", "-", "build-basedir">>
T_chroot   == <<"-", "-", "chroot-basedir">>
T_logdir   == <<"-", "-", "condor-", "logdir">>
T_memory   == <<"-", "-", "condor-", "request-memory", "=", "2000">>
T_result   == <<"-", "-", "result-dir">>
P_dash     == <<"-">>
P_condor   == <<"-", "-", "condor-">>
P_basedir  == <<"-", "-", "build-basedir">>
T_yes      == <<"yes">>
T_no       == <<"no">>
T_dsc      == <<"src", "/", "pkg_1.0.dsc">>

Families == {<<"debian">>, <<"ubuntu">>}

\* the options an invocation is made of, each with its values
Options ==
    { <<T_env, <<"debian">>, <<"sid">> >>,
      <<T_env, <<"ubuntu">>, <<"jammy">> >>,
      <<T_arch, <<"amd64">>, <<"i386">> >>,
      <<T_logdir, <<"logs">> >>,
      <<T_memory>>,
      <<T_basedir, <<"bb">> >>,
      <<T_backport>>,
      <<T_srcincl, T_yes>>,
      <<T_srcincl, T_no>>,
      <<T_result, <<"out">> >> }

Requests == UNION { [1..n -> Options] : n \in 0..MaxOpts }

RECURSIVE Flatten(_)
Flatten(ss) == IF ss = <<>> THEN <<>> ELSE Head(ss) \o Flatten(Tail(ss))

\* the command line of a request: program, command, options, the optional
\* "--" and the source package descriptor as the final token
CommandLine(req, sep) ==
    <<T_prog, T_cmd>> \o Flatten(req) \o (IF sep THEN <<T_dd>> ELSE <<>>) \o <<T_dsc>>

\* the values the option parser stores for a request
OptionsOf(req, flag) == SelectSeq(req, LAMBDA o : o[1] = flag)

ParsedArgs(req) ==
    LET envs == OptionsOf(req, T_env)
        ar   == OptionsOf(req, T_arch)
        si   == OptionsOf(req, T_srcincl)
        mem  == OptionsOf(req, T_memory)
    IN [ env |-> IF envs = <<>> THEN None
                 ELSE Some([k \in 1..Len(envs) |-> <<envs[k][2], envs[k][3]>>]),
         arch |-> IF ar = <<>> THEN None ELSE Some(Tail(ar[Len(ar)])),
         backport |-> OptionsOf(req, T_backport) # <<>>,
         source_include |-> IF si = <<>> THEN None
                            ELSE Some(si[Len(si)][2] = T_yes),
         condor_request_memory |-> IF mem = <<>> THEN 1000 ELSE 2000,
         condor_nice_user |-> T_yes ]

\* the configurations: the default environments, the architectures of each
\* family (a string of words) and the truth value of its "source include"
Configs ==
    { [ environments |-> <<"debian", "-", "sid", " ", "ubuntu", "-", "jammy">>,
        architectures |-> [f \in Families |->
                             IF f = <<"debian">> THEN <<"amd64", " ", "i386">> ELSE ua],
        source_include |-> si ] :
      ua \in { <<>>, <<"amd64">> }, si \in [Families -> BOOLEAN] }

-----------------------------------------------------------------------------
\* collaborators of run()

\* deb822.Dsc(open(path))['Files']: the artifacts a descriptor references
IsBackported(path) == startswith(path, <<"backports">>)
Descriptors == {T_dsc} \cup
    { <<"backports", "/", f[1], "-", c[1], "/", "pkg_1.0.dsc">> :
        f \in Families, c \in { <<"sid">>, <<"jammy">> } }
DscFiles(path) ==
    IF IsBackported(path)
    THEN << <<"pkg_1.0.orig.tar.gz">>, <<"pkg_1.0~", path[3], ".debian.tar.gz">> >>
    ELSE << <<"pkg_1.0.orig.tar.gz">>, <<"pkg_1.0.debian.tar.gz">> >>

_backport_dsc(dsc, codename, family) ==
    <<"backports", "/", family[1], "-", codename[1], "/", "pkg_1.0.dsc">>

_get_chroot_base(family, codename, arch) ==
    <<"chroots", "/">> \o family \o <<"-">> \o codename \o <<"-">> \o arch

get_build_option(explicit, configured) ==
    IF explicit # None THEN explicit[1] ELSE configured

-----------------------------------------------------------------------------
\* Argument Rewriter (lines 77-111)

RECURSIVE SkipArchValues(_, _)
SkipArchValues(a, j) ==
    IF j < Len(a) /\ ~startswith(a[j + 1], P_dash)
    THEN SkipArchValues(a, j + 1)
    ELSE j

\* the index after the branch taken for sys_argv[j], before the final i += 1
Consume(a, j) ==
    LET av == a[j]
    IN IF av = T_env THEN j + 2
       ELSE IF av = T_arch THEN SkipArchValues(a, j + 1)
       ELSE IF av = T_dd THEN j
       ELSE IF startswith(av, P_condor) THEN j + 1
       ELSE IF startswith(av, P_basedir) THEN j + 1
       ELSE j

\* what the branch taken for av appends to argv
Forward(av) ==
    IF av = T_env \/ av = T_arch \/ av = T_dd THEN <<>>
    ELSE IF startswith(av, P_condor) \/ startswith(av, P_basedir) THEN <<>>
    ELSE IF av = T_backport \/ av = T_srcincl THEN <<>>
    ELSE IF av = T_cmd THEN <<T_slave>>
    ELSE <<av>>

-----------------------------------------------------------------------------
\* Job Matrix Expander and Descriptor Builder (lines 116-198)

Header(a, ar) ==
    [ kind |-> "header", executable |-> a[1],
      request_memory |-> ar.condor_request_memory,
      nice_user |-> ar.condor_nice_user ]

EnvComment(family, codename) ==
    [ kind |-> "env", family |-> family, codename |-> codename ]

\* the flag of an architecture that is not the first is not cleared
SrcInclEveryArch(si, first) == IF truthy(si) THEN T_yes ELSE T_no

\* lines 169-172
SrcIncl(si, first) == IF truthy(si) /\ first THEN T_yes ELSE T_no

Arguments(a, family, codename, arch, src_incl, dist_dsc) ==
    Tail(a) \o <<T_env, family, codename,
                 T_basedir, <<"buildbase">>,
                 T_arch, arch,
                 T_chroot, <<".">>,
                 T_srcincl, src_incl,
                 T_dd>>
            \o <<basename(dist_dsc)>>

\* the artifacts are not located in the descriptor's directory
TransferFilesNoDir(dist_dsc) == <<dist_dsc>> \o DscFiles(dist_dsc)

\* lines 155-156
TransferFiles(dist_dsc) ==
    <<dist_dsc>> \o [k \in 1..Len(DscFiles(dist_dsc)) |->
                        opj(dirname(dist_dsc), DscFiles(dist_dsc)[k])]

Stanza(a, family, codename, arch, src_incl, dist_dsc, files) ==
    [ kind |-> "job", arch |-> arch,
      arguments |-> Arguments(a, family, codename, arch, src_incl, dist_dsc),
      transfer_files |->
          files \o << _get_chroot_base(family, codename, arch) \o <<".tar.gz">> >> ]

\* a backport run does not start over from the request-level value
EnvSourceIncludeNoReset(si, ar, c, family) ==
    IF si = None THEN Some(c.source_include[family]) ELSE si

\* lines 140-149: the source-include policy an environment starts with
EnvSourceInclude(si, ar, c, family) ==
    LET si1 == IF ar.backport THEN ar.source_include ELSE si
    IN IF si1 = None THEN Some(c.source_include[family]) ELSE si1

\* the policy of an environment is left for the next one
SourceIncludeKept(si) == si

\* line 198: the policy left for the next environment
SourceIncludeAfterEnv(si) == Some(FALSE)

\* the stanza is put in front of the document
AddStanzaFront(doc, stanza) == <<stanza>> \o doc

\* lines 153 and 187: the document is appended to
AddStanza(doc, stanza) == Append(doc, stanza)

\* the message does not quote the document
ErrorMessageNoSpec(doc) == [ text |-> "could not submit build", spec |-> <<>> ]

\* line 203: the message of the RuntimeError
ErrorMessage(doc) == [ text |-> "could not submit build; SPEC follows", spec |-> doc ]

-----------------------------------------------------------------------------
Init ==
    \E req \in Requests, sep \in BOOLEAN, c \in Configs :
        /\ (req # <<>> /\ req[Len(req)][1] = T_arch) => sep
        /\ sys_argv = CommandLine(req, sep)
        /\ args = ParsedArgs(req)
        /\ cfg = c
        /\ pc = "start"
        /\ i = 1
        /\ argv = <<>>
        /\ dsc_fname = <<>>
        /\ submit = <<>>
        /\ source_include = None
        /\ env_idx = 1
        /\ dist_dsc_fname = <<>>
        /\ transfer_files = <<>>
        /\ archs = <<>>
        /\ arch_idx = 1
        /\ first_arch = TRUE
        /\ stdin = <<>>
        /\ calls = 0
        /\ returncode = None
        /\ error = None

\* lines 72-78: the default environments, then the rewriter starts
Start ==
    /\ pc = "start"
    /\ args' = IF args.env = None
               THEN [args EXCEPT !.env =
                       Some([k \in 1..Len(split(cfg.environments, " ")) |->
                               split(split(cfg.environments, " ")[k], "-")])]
               ELSE args
    /\ argv' = <<>>
    /\ i' = 1
    /\ pc' = "rewrite"
    /\ UNCHANGED <<sys_argv, cfg, dsc_fname, submit, source_include, env_idx,
                   dist_dsc_fname, transfer_files, archs, arch_idx, first_arch,
                   stdin, calls, returncode, error>>

\* lines 79-111: one iteration of the while loop
RewriteStep ==
    /\ pc = "rewrite"
    /\ i <= Len(sys_argv)
    /\ argv' = argv \o Forward(sys_argv[i])
    /\ i' = Consume(sys_argv, i) + 1
    /\ UNCHANGED <<sys_argv, args, cfg, pc, dsc_fname, submit, source_include,
                   env_idx, dist_dsc_fname, transfer_files, archs, arch_idx,
                   first_arch, stdin, calls, returncode, error>>

\* lines 112-137: the descriptor is split off and read, the header is written
SplitDsc ==
    /\ pc = "rewrite"
    /\ i > Len(sys_argv)
    /\ IF argv = <<>>
       THEN /\ pc' = "crashed"
            /\ UNCHANGED <<argv, dsc_fname, submit, source_include>>
       ELSE /\ dsc_fname' = argv[Len(argv)]
            /\ argv' = SubSeq(argv, 1, Len(argv) - 1)
            /\ IF dsc_fname' \in Descriptors /\ argv' # <<>>
               THEN /\ submit' = <<Header(argv', args)>>
                    /\ source_include' = args.source_include
                    /\ pc' = "env"
               ELSE /\ pc' = "crashed"
                    /\ UNCHANGED <<submit, source_include>>
    /\ UNCHANGED <<sys_argv, args, cfg, i, env_idx, dist_dsc_fname,
                   transfer_files, archs, arch_idx, first_arch, stdin, calls,
                   returncode, error>>

\* lines 138-165: the head of the loop over the environments
BeginEnv ==
    /\ pc = "env"
    /\ env_idx <= Len(args.env[1])
    /\ LET family   == args.env[1][env_idx][1]
           codename == args.env[1][env_idx][2]
       IN /\ dist_dsc_fname' = IF args.backport
                               THEN _backport_dsc(dsc_fname, codename, family)
                               ELSE dsc_fname
          /\ source_include' = EnvSourceInclude(source_include, args, cfg, family)
          /\ submit' = AddStanza(submit, EnvComment(family, codename))
          /\ transfer_files' = TransferFiles(dist_dsc_fname')
          /\ archs' = LET a == get_build_option(args.arch, cfg.architectures[family])
                      IN IF args.arch = None THEN split(a, " ") ELSE a
    /\ first_arch' = TRUE
    /\ arch_idx' = 1
    /\ pc' = "arch"
    /\ UNCHANGED <<sys_argv, args, cfg, i, argv, dsc_fname, env_idx, stdin,
                   calls, returncode, error>>

\* lines 166-196: one iteration of the loop over the architectures
EmitJob ==
    /\ pc = "arch"
    /\ arch_idx <= Len(archs)
    /\ LET family   == args.env[1][env_idx][1]
           codename == args.env[1][env_idx][2]
           arch     == archs[arch_idx]
       IN submit' = AddStanza(submit,
                       Stanza(argv, family, codename, arch,
                              SrcIncl(source_include, first_arch),
                              dist_dsc_fname, transfer_files))
    /\ first_arch' = FALSE
    /\ arch_idx' = arch_idx + 1
    /\ UNCHANGED <<sys_argv, args, cfg, pc, i, argv, dsc_fname, source_include,
                   env_idx, dist_dsc_fname, transfer_files, archs, stdin, calls,
                   returncode, error>>

\* lines 197-198: the end of an environment
EndEnv ==
    /\ pc = "arch"
    /\ arch_idx > Len(archs)
    /\ source_include' = SourceIncludeAfterEnv(source_include)
    /\ env_idx' = env_idx + 1
    /\ pc' = "env"
    /\ UNCHANGED <<sys_argv, args, cfg, i, argv, dsc_fname, submit,
                   dist_dsc_fname, transfer_files, archs, arch_idx, first_arch,
                   stdin, calls, returncode, error>>

\* lines 199-203: the document goes to condor_submit, whose exit status decides
Submit ==
    /\ pc = "env"
    /\ env_idx > Len(args.env[1])
    /\ \E status \in {0, 1} :
          /\ stdin' = submit
          /\ calls' = calls + 1
          /\ returncode' = Some(status)
          /\ IF status # 0
             THEN pc' = "failed" /\ error' = Some(ErrorMessage(submit))
             ELSE pc' = "done" /\ UNCHANGED error
    /\ UNCHANGED <<sys_argv, args, cfg, i, argv, dsc_fname, submit,
                   source_include, env_idx, dist_dsc_fname, transfer_files,
                   archs, arch_idx, first_arch>>

Next == Start \/ RewriteStep \/ SplitDsc \/ BeginEnv \/ EmitJob \/ EndEnv \/ Submit

Spec == Init /\ [][Next]_vars

-----------------------------------------------------------------------------
\* reading the run and the document

Range(s) == { s[k] : k \in DOMAIN s }
Count(s, t) == Cardinality({ k \in DOMAIN s : s[k] = t })
Rewritten == pc \notin {"start", "rewrite"}
Finished == pc \in {"done", "failed"}
Jobs(doc) == SelectSeq(doc, LAMBDA e : e.kind = "job")
IsJob(k) == k \in DOMAIN submit /\ submit[k].kind = "job"
IsEnv(k) == k \in DOMAIN submit /\ submit[k].kind = "env"
\* the token of a job's argument list that is n places before its last one
JobArg(j, n) == j.arguments[Len(j.arguments) - n]
JobSrcIncl(j) == JobArg(j, 2)
JobTriple(j) == <<JobArg(j, 11), JobArg(j, 10), JobArg(j, 6)>>
\* the position of the environment comment that the entry at k belongs to
EnvPos(k) == CHOOSE m \in 1..k : IsEnv(m) /\ \A n \in (m + 1)..k : ~IsEnv(n)
\* the architecture list the family resolves to
ResolvedArchs(family) ==
    IF args.arch # None THEN args.arch[1] ELSE split(cfg.architectures[family], " ")
RECURSIVE ExpectedJobs(_)
ExpectedJobs(envs) ==
    IF envs = <<>> THEN <<>>
    ELSE LET e == Head(envs)
             A == ResolvedArchs(e[1])
         IN [k \in 1..Len(A) |-> <<e[1], e[2], A[k]>>] \o ExpectedJobs(Tail(envs))
RECURSIVE SumArchs(_)
SumArchs(envs) ==
    IF envs = <<>> THEN 0
    ELSE Len(ResolvedArchs(Head(envs)[1])) + SumArchs(Tail(envs))

-----------------------------------------------------------------------------
\* C1: when the run ends, the document holds exactly sum(|Ai|) job stanzas, and
\* their (family, codename, architecture) triples are, in document order, the
\* jobs of e1 in the order of A1, then those of e2 in the order of A2, and so
\* on; an environment with no architecture adds none, a repeated one adds its
\* jobs again.
C1_JobMatrix ==
    Finished =>
        /\ Len(Jobs(submit)) = SumArchs(args.env[1])
        /\ [k \in 1..Len(Jobs(submit)) |-> JobTriple(Jobs(submit)[k])]
               = ExpectedJobs(args.env[1])
        /\ \A k \in 1..Len(Jobs(submit)) :
               Jobs(submit)[k].arch = ExpectedJobs(args.env[1])[k][3]

\* a finished run over an environment without architectures, a repeated
\* environment or two different ones, which emitted at least two jobs
C1_Witness ==
    /\ Finished
    /\ Len(args.env[1]) >= 2
    /\ Len(Jobs(submit)) >= 2
    /\ \/ \E k \in DOMAIN args.env[1] : ResolvedArchs(args.env[1][k][1]) = <<>>
       \/ args.env[1][1] = args.env[1][2]

\* C2: in the run of an environment only the job that directly follows the
\* environment's comment, the job of its first architecture, can have
\* source-include = yes; every later job of the run has no.
C2_OnlyFirstArch ==
    \A k \in DOMAIN submit :
        (IsJob(k) /\ JobSrcIncl(submit[k]) = T_yes) => IsEnv(k - 1)

\* a run with the request-level value yes and backporting, whose environment
\* has a first job with yes followed by a job with no
C2_Witness ==
    /\ args.source_include = Some(TRUE)
    /\ args.backport
    /\ \E k \in DOMAIN submit :
          /\ IsEnv(k) /\ IsJob(k + 1) /\ IsJob(k + 2)
          /\ JobSrcIncl(submit[k + 1]) = T_yes
          /\ JobSrcIncl(submit[k + 2]) = T_no

\* C3 as stated: with two or more environments and no source-include value on
\* the command line, the first job of every environment has yes exactly when
\* the environment's own family is configured to include source, with or
\* without backporting.
C3_Original ==
    (Finished /\ args.source_include = None /\ Len(args.env[1]) >= 2) =>
        \A k \in DOMAIN submit :
            (IsEnv(k) /\ IsJob(k + 1)) =>
                (JobSrcIncl(submit[k + 1]) = T_yes
                    <=> cfg.source_include[submit[k].family])

\* C3 as amended: the first job of the first environment, and with backporting
\* the first job of every environment, has yes exactly when the environment's
\* own family is configured to include source; without backporting the first
\* job of every later environment has no.
C3_OwnPolicy ==
    (Finished /\ args.source_include = None /\ Len(args.env[1]) >= 2) =>
        \A k \in DOMAIN submit :
            (IsEnv(k) /\ IsJob(k + 1)) =>
                IF args.backport \/ k = 2
                THEN JobSrcIncl(submit[k + 1]) = T_yes
                         <=> cfg.source_include[submit[k].family]
                ELSE JobSrcIncl(submit[k + 1]) = T_no

\* a finished backport run without a request-level value, whose second
\* environment includes source by its own policy and the first does not
C3_Witness ==
    /\ Finished /\ args.source_include = None /\ args.backport
    /\ \E k, m \in DOMAIN submit :
          /\ k < m /\ IsEnv(k) /\ IsJob(k + 1) /\ IsEnv(m) /\ IsJob(m + 1)
          /\ JobSrcIncl(submit[k + 1]) = T_no
          /\ JobSrcIncl(submit[m + 1]) = T_yes

\* C10: without backporting at most one job of the whole run has
\* source-include = yes, and it is the job of the first architecture of the
\* first requested environment (the third entry of the document, after the
\* header and the first environment comment).
C10_OnlyFirstEnv ==
    ~args.backport =>
        \A k \in DOMAIN submit :
            (IsJob(k) /\ JobSrcIncl(submit[k]) = T_yes) => k = 3

\* a finished run without backporting whose first job has yes and whose later
\* environment, configured to include source, starts with no
C10_Witness ==
    /\ Finished /\ ~args.backport
    /\ IsJob(3) /\ JobSrcIncl(submit[3]) = T_yes
    /\ \E m \in DOMAIN submit :
          /\ m > 3 /\ IsEnv(m) /\ IsJob(m + 1)
          /\ cfg.source_include[submit[m].family]
          /\ JobSrcIncl(submit[m + 1]) = T_no

-----------------------------------------------------------------------------
\* the command line as the option grammar reads it

\* the tokens given as values to --env (the two after it) and to --arch (the
\* run of tokens after it that do not start with "-")
EnvValues(a) ==
    { a[k + n] : k \in { m \in DOMAIN a : a[m] = T_env /\ m + 2 <= Len(a) },
                 n \in {1, 2} }
ArchValues(a) ==
    { a[m] : m \in { n \in DOMAIN a :
                       \E k \in 1..(n - 1) :
                           /\ a[k] = T_arch
                           /\ \A q \in (k + 1)..n : ~startswith(a[q], P_dash) } }
SrcInclValues(a) ==
    { a[k + 1] : k \in { m \in DOMAIN a : a[m] = T_srcincl /\ m < Len(a) } }

\* a flag that carries its value in the same token, as in --flag=value
HasInlineValue(av) == \E k \in DOMAIN av : av[k] = "="

RECURSIVE DropValues(_)
DropValues(a) ==
    IF a # <<>> /\ ~startswith(Head(a), P_dash) THEN DropValues(Tail(a)) ELSE a

Drop(a, n) == SubSeq(a, n + 1, Len(a))

\* the tokens left when the flags of the listed categories are taken out with
\* their values and the program name is renamed; the "--" separator, which
\* every job gets back from the expander, is not counted as a token to forward
RECURSIVE Kept(_)
Kept(a) ==
    IF a = <<>> THEN <<>>
    ELSE LET av == Head(a)
         IN IF av = T_env THEN Kept(Drop(a, 3))
            ELSE IF av = T_arch THEN Kept(DropValues(Tail(a)))
            ELSE IF startswith(av, P_condor) \/ startswith(av, P_basedir)
                 THEN Kept(Drop(a, IF HasInlineValue(av) THEN 1 ELSE 2))
            ELSE IF av \in {T_backport, T_srcincl, T_dd} THEN Kept(Tail(a))
            ELSE IF av = T_cmd THEN <<T_slave>> \o Kept(Tail(a))
            ELSE <<av>> \o Kept(Tail(a))

\* C4 as stated: the rewritten template holds neither --env nor --arch nor a
\* value given to them, and every job's argument list holds exactly one --env
\* and exactly one --arch, followed by the job's environment and architecture.
C4_Original ==
    Rewritten =>
        /\ Range(argv) \cap ({T_env, T_arch} \cup EnvValues(sys_argv)
                                \cup ArchValues(sys_argv)) = {}
        /\ \A k \in DOMAIN submit :
               IsJob(k) =>
                   /\ Count(submit[k].arguments, T_env) = 1
                   /\ Count(submit[k].arguments, T_arch) = 1
                   /\ JobArg(submit[k], 12) = T_env
                   /\ JobArg(submit[k], 7) = T_arch

\* C5 as stated: when the final token was split off as the descriptor path,
\* the template is the rest of the command line without the tokens of the
\* listed categories and with the program name renamed: every other token
\* once, unchanged and in its order.
C5_Original ==
    (Rewritten /\ dsc_fname = sys_argv[Len(sys_argv)]) =>
        argv \o <<dsc_fname>> = Kept(sys_argv)

\* C6 as stated: the descriptor path is the final token of the command line,
\* and that token is not in the template.
C6_Original ==
    Rewritten =>
        /\ dsc_fname = sys_argv[Len(sys_argv)]
        /\ sys_argv[Len(sys_argv)] \notin Range(argv)

\* C7 as stated: the template holds neither --source-include nor a value that
\* followed it on the command line, and every job's argument list holds
\* exactly one --source-include, followed by the value computed for the job.
C7_Original ==
    Rewritten =>
        /\ Range(argv) \cap ({T_srcincl} \cup SrcInclValues(sys_argv)) = {}
        /\ \A k \in DOMAIN submit :
               IsJob(k) =>
                   /\ Count(submit[k].arguments, T_srcincl) = 1
                   /\ JobArg(submit[k], 3) = T_srcincl
                   /\ Range(submit[k].arguments) \cap {T_yes, T_no}
                          = {JobSrcIncl(submit[k])}

\* C8: condor_submit is called at most once, not before the loop over the
\* environments has ended, and exactly once when the run ends; it reads the
\* complete document, with the stanza of every job; a nonzero exit status ends
\* the run in an error whose message contains that document, a zero exit
\* status ends it without one.
C8_SubmitOnce ==
    /\ calls <= 1
    /\ calls = 1 <=> Finished
    /\ calls = 1 <=> returncode # None
    /\ Finished =>
          /\ stdin = submit
          /\ Len(Jobs(stdin)) = SumArchs(args.env[1])
          /\ Len(stdin) = 1 + Len(args.env[1]) + SumArchs(args.env[1])
          /\ pc = "failed" <=> returncode[1] # 0
          /\ pc = "failed" => (error # None /\ error[1].spec = stdin)
          /\ pc = "done" => error = None

\* a run that failed on a document with at least two job stanzas
C8_Witness ==
    /\ pc = "failed" /\ returncode = Some(1) /\ calls = 1
    /\ Len(Jobs(stdin)) >= 2
    /\ error # None

====
